---- MODULE Spec2Model ----
(***************************************************************************)
(* A model of jira-tui's event loop (src/app.rs), its modal key dispatch   *)
(* and line editor (src/ui/input.rs) and its column layout                 *)
(* (src/ui/issue_list.rs).                                                 *)
(*                                                                         *)
(* Strings are sequences of characters; a character is a TLA+ string, and  *)
(* ByteLen gives the length of its UTF-8 encoding, since String::len,      *)
(* rfind and truncate count bytes.  usize and isize are modelled with      *)
(* UsizeBits bits instead of 64; arithmetic on them overflows as rustc     *)
(* compiles it: a panic when overflow checks are on (debug profile), a     *)
(* two's-complement wrap when they are off (release profile).              *)
(***************************************************************************)
EXTENDS Integers, Sequences, FiniteSets, TLC

VARIABLES
    status,           \* "running", "quit" (run_app returned Ok) or "panicked"
    overflow_checks,  \* the build profile: TRUE = overflow checks on (debug)
    input_mode,       \* app.input_mode
    pending_count,    \* run_app's local Option<usize>: <<>> is None, <<n>> is Some(n)
    issues,           \* app.issues: the sequence of the issues' summaries
    selected,         \* app.list_state.selected(): <<>> is None, <<i>> is Some(i)
    offset,           \* app.list_state.offset()
    input,            \* app.input
    cursor,           \* app.input_state.cursor
    sidebar_visible,  \* app.sidebar_visible
    key,              \* the key event read last (NoKey before the first one)
    action,           \* the action the mode's handler returned for it
    typed,            \* history: the digit keys that made the count now pending
    available_width,  \* area.width of the frame being drawn
    constraints       \* render_issue_list's column constraints, <<>> before a draw

vars == <<status, overflow_checks, input_mode, pending_count, issues, selected,
          offset, input, cursor, sidebar_visible, key, action, typed,
          available_width, constraints>>

appVars == <<input_mode, pending_count, issues, selected, offset, input, cursor,
             sidebar_visible>>

layoutVars == <<available_width, constraints>>

-----------------------------------------------------------------------------
(* Bounds of the model. *)

\* usize and isize have UsizeBits bits in the model (64 in the program).
UsizeBits == 6

\* At most MaxDigits digit keys are accumulated into one count.
MaxDigits == 2

\* The input line holds at most MaxInput characters.
MaxInput == 2

\* The issue list holds at most MaxIssues issues.
MaxIssues == 2

-----------------------------------------------------------------------------
(* Machine integers. *)

RECURSIVE Pow2(_)
Pow2(n) == IF n = 0 THEN 1 ELSE 2 * Pow2(n - 1)

UsizeModulus == Pow2(UsizeBits)
UsizeMax == UsizeModulus - 1
IsizeMax == Pow2(UsizeBits - 1) - 1
IsizeMin == 0 - Pow2(UsizeBits - 1)

\* `x as isize` for a usize x: the same bits, read as two's complement.
AsIsize(x) == IF x > IsizeMax THEN x - UsizeModulus ELSE x

\* A mathematical result v brought back into isize by wrapping.
WrapIsize(v) == ((v - IsizeMin) % UsizeModulus) + IsizeMin

IsizeOverflows(v) == v > IsizeMax \/ v < IsizeMin

\* clamp on isize (min <= max at every call of the program).
Clamp(v, lo, hi) == IF v < lo THEN lo ELSE IF v > hi THEN hi ELSE v

None == <<>>
Some(x) == <<x>>
UnwrapOr(opt, d) == IF opt = None THEN d ELSE opt[1]

-----------------------------------------------------------------------------
(* Characters and strings. *)

\* U+00A0 NO-BREAK SPACE: char::is_whitespace holds and it takes two bytes.
Nbsp == "nbsp"

IsWhitespace(c) == c \in {" ", Nbsp}

ByteLen(c) == IF c = Nbsp THEN 2 ELSE 1

RECURSIVE StrLen(_)
\* String::len: the length in bytes.
StrLen(s) == IF s = <<>> THEN 0 ELSE ByteLen(s[1]) + StrLen(Tail(s))

Prefix(s, n) == SubSeq(s, 1, n)

IsAsciiDigit(c) == c \in {"0", "1", "2", "3", "4", "5", "6", "7", "8", "9"}

\* char::to_digit(10) of an ASCII digit.
ToDigit(c) ==
    CASE c = "0" -> 0 [] c = "1" -> 1 [] c = "2" -> 2 [] c = "3" -> 3
      [] c = "4" -> 4 [] c = "5" -> 5 [] c = "6" -> 6 [] c = "7" -> 7
      [] c = "8" -> 8 [] c = "9" -> 9

-----------------------------------------------------------------------------
(* Key events and actions. *)

Char(c) == [kind |-> "Char", c |-> c]
Named(kind) == [kind |-> kind, c |-> ""]
KeyEvent(code, modifiers) == [code |-> code, modifiers |-> modifiers]

\* KeyModifiers is a bit set; NONE is the empty one.
NONE == {}
CONTROL == {"CONTROL"}
SHIFT == {"SHIFT"}

NoKey == KeyEvent(Named("Null"), NONE)

\* NormalModeAction and EditingModeAction; n is the payload of Jump and Scroll.
Act(tag, n) == [tag |-> tag, n |-> n]
Quit == Act("Quit", 0)
Jump(n) == Act("Jump", n)
Scroll(n) == Act("Scroll", n)
EnterInput == Act("EnterInput", 0)
GotoTop == Act("GotoTop", 0)
GotoBottom == Act("GotoBottom", 0)
ToggleSidebar == Act("ToggleSidebar", 0)
NoAction == Act("None", 0)
Submit == Act("Submit", 0)
Cancel == Act("Cancel", 0)
Edited == Act("Edited", 0)

\* What a handler call comes to: the action returned and the cell it was given
\* by reference, or a panic inside the call (cell as the panic left it).
Returned(a, cell) == [action |-> a, cell |-> cell, panicked |-> FALSE]
Panicked(cell) == [action |-> NoAction, cell |-> cell, panicked |-> TRUE]

-----------------------------------------------------------------------------
(* handle_normal_mode_key, src/ui/input.rs *)

\* The guard of the digit branch.
AccumulatesDigit(k, pending) ==
    /\ k.code.kind = "Char"
    /\ IsAsciiDigit(k.code.c)
    /\ ~(k.code.c = "0" /\ pending = None)

\* pending_count.unwrap_or(0) * 10 + digit, before it is fitted into usize.
Accumulated(pending, digit) == UnwrapOr(pending, 0) * 10 + digit

\* A digit branch that stores nothing.
AccumulateDigit_Dropped(k, pending, checks) == Returned(NoAction, None)

\* The digit branch: the new count is stored and Action::None returned; a count
\* beyond usize panics (overflow checks on) or wraps (off).
AccumulateDigit(k, pending, checks) ==
    LET v == Accumulated(pending, ToDigit(k.code.c)) IN
    IF v <= UsizeMax THEN Returned(NoAction, Some(v))
    ELSE IF checks THEN Panicked(pending)
    ELSE Returned(NoAction, Some(v % UsizeModulus))

\* -(count as isize): isize::MIN has no negation.
NegatedCount(tag, count, checks) ==
    LET c == AsIsize(count) IN
    IF c # IsizeMin THEN Returned(Act(tag, 0 - c), None)
    ELSE IF checks THEN Panicked(None)
    ELSE Returned(Act(tag, IsizeMin), None)

\* The match on (count, key.modifiers, key.code), count being
\* pending_count.take().unwrap_or(1).
ResolveKey(count, k, checks) ==
    LET m == k.modifiers
        code == k.code
    IN  IF m = NONE /\ code \in {Char("j"), Named("Down")}
          THEN Returned(Jump(AsIsize(count)), None)
        ELSE IF m = NONE /\ code \in {Char("k"), Named("Up")}
          THEN NegatedCount("Jump", count, checks)
        ELSE IF m = NONE /\ code = Char("d") THEN Returned(Jump(20), None)
        ELSE IF m = NONE /\ code = Char("u") THEN Returned(Jump(0 - 20), None)
        ELSE IF m = NONE /\ code = Char("i") THEN Returned(EnterInput, None)
        ELSE IF m = NONE /\ code = Char("g") THEN Returned(GotoTop, None)
        ELSE IF m = NONE /\ code = Char("G") THEN Returned(GotoBottom, None)
        ELSE IF m = NONE /\ code = Char("s") THEN Returned(ToggleSidebar, None)
        ELSE IF m = NONE /\ code = Char("q") THEN Returned(Quit, None)
        ELSE IF m = CONTROL /\ code = Char("e")
          THEN Returned(Scroll(AsIsize(count)), None)
        ELSE IF m = CONTROL /\ code = Char("y")
          THEN NegatedCount("Scroll", count, checks)
        ELSE Returned(NoAction, None)

\* A take that leaves the count in the cell.
TakeLeaves_Kept(pending) == pending

\* Option::take leaves None in the cell.
TakeLeaves(pending) == None

handle_normal_mode_key(k, pending, checks) ==
    IF AccumulatesDigit(k, pending)
      THEN AccumulateDigit(k, pending, checks)
      ELSE [ResolveKey(UnwrapOr(pending, 1), k, checks) EXCEPT
               !.cell = TakeLeaves(pending)]

-----------------------------------------------------------------------------
(* delete_prev_word and handle_editing_mode_key, src/ui/input.rs *)

RECURSIVE TrimEnd(_)
\* str::trim_end_matches(char::is_whitespace)
TrimEnd(s) ==
    IF s # <<>> /\ IsWhitespace(s[Len(s)]) THEN TrimEnd(Prefix(s, Len(s) - 1))
    ELSE s

RECURSIVE TrimStart(_)
TrimStart(s) ==
    IF s # <<>> /\ IsWhitespace(s[1]) THEN TrimStart(Tail(s)) ELSE s

\* str::trim
Trim(s) == TrimEnd(TrimStart(s))

\* The positions of s that hold whitespace.
WhitespaceAt(s) == {i \in 1..Len(s) : IsWhitespace(s[i])}

SetMax(S) == CHOOSE x \in S : \A y \in S : y <= x

\* str::rfind(char::is_whitespace): the byte index of the last whitespace
\* character, None when there is none.
RFindWhitespace(s) ==
    IF WhitespaceAt(s) = {} THEN None
    ELSE Some(StrLen(Prefix(s, SetMax(WhitespaceAt(s)) - 1)))

\* str::is_char_boundary
IsCharBoundary(s, n) == \E i \in 0..Len(s) : StrLen(Prefix(s, i)) = n

\* The byte index delete_prev_word truncates to, after the whitespace found.
TruncateAt(pos) == pos + 1

\* String::truncate(new_len): a no-op when new_len > len, a panic when new_len
\* is inside a character, else the characters of the first new_len bytes.
Truncate(s, new_len) ==
    IF new_len > StrLen(s) THEN Returned(NoAction, s)
    ELSE IF ~IsCharBoundary(s, new_len) THEN Panicked(s)
    ELSE Returned(NoAction,
                  Prefix(s, CHOOSE i \in 0..Len(s) : StrLen(Prefix(s, i)) = new_len))

delete_prev_word(s) ==
    LET pos == RFindWhitespace(TrimEnd(s)) IN
    IF pos # None THEN Truncate(s, TruncateAt(pos[1]))
    ELSE Returned(NoAction, <<>>)

\* A pop that removes the last byte: a two-byte character loses one.
Pop_LastByte(s) ==
    IF s = <<>> THEN s
    ELSE IF ByteLen(s[Len(s)]) = 1 THEN Prefix(s, Len(s) - 1)
    ELSE [s EXCEPT ![Len(s)] = "?"]

\* String::pop
Pop(s) == IF s = <<>> THEN s ELSE Prefix(s, Len(s) - 1)

\* A handler without the Control+u branch: the u is appended.
handle_editing_mode_key_NoCtrlU(k, s) ==
    LET ctrl == CONTROL \subseteq k.modifiers
        code == k.code
    IN  IF code = Named("Enter") THEN Returned(Submit, s)
        ELSE IF code = Named("Esc") THEN Returned(Cancel, s)
        ELSE IF code = Char("w") /\ ctrl
          THEN LET r == delete_prev_word(s) IN
               IF r.panicked THEN r ELSE Returned(Edited, r.cell)
        ELSE IF code.kind = "Char" THEN Returned(Edited, Append(s, code.c))
        ELSE IF code = Named("Backspace") THEN Returned(Edited, Pop(s))
        ELSE Returned(NoAction, s)

\* A handler whose Esc branch clears the buffer.
handle_editing_mode_key_EscClears(k, s) ==
    LET ctrl == CONTROL \subseteq k.modifiers
        code == k.code
    IN  IF code = Named("Enter") THEN Returned(Submit, s)
        ELSE IF code = Named("Esc") THEN Returned(Cancel, <<>>)
        ELSE IF code = Char("w") /\ ctrl
          THEN LET r == delete_prev_word(s) IN
               IF r.panicked THEN r ELSE Returned(Edited, r.cell)
        ELSE IF code = Char("u") /\ ctrl THEN Returned(Edited, <<>>)
        ELSE IF code.kind = "Char" THEN Returned(Edited, Append(s, code.c))
        ELSE IF code = Named("Backspace") THEN Returned(Edited, Pop(s))
        ELSE Returned(NoAction, s)

\* A handler that ignores every character typed with Control held.
handle_editing_mode_key_CtrlIgnored(k, s) ==
    LET ctrl == CONTROL \subseteq k.modifiers
        code == k.code
    IN  IF code = Named("Enter") THEN Returned(Submit, s)
        ELSE IF code = Named("Esc") THEN Returned(Cancel, s)
        ELSE IF code = Char("w") /\ ctrl
          THEN LET r == delete_prev_word(s) IN
               IF r.panicked THEN r ELSE Returned(Edited, r.cell)
        ELSE IF code = Char("u") /\ ctrl THEN Returned(Edited, <<>>)
        ELSE IF code.kind = "Char" /\ ~ctrl THEN Returned(Edited, Append(s, code.c))
        ELSE IF code = Named("Backspace") THEN Returned(Edited, Pop(s))
        ELSE Returned(NoAction, s)

handle_editing_mode_key(k, s) ==
    LET ctrl == CONTROL \subseteq k.modifiers
        code == k.code
    IN  IF code = Named("Enter") THEN Returned(Submit, s)
        ELSE IF code = Named("Esc") THEN Returned(Cancel, s)
        ELSE IF code = Char("w") /\ ctrl
          THEN LET r == delete_prev_word(s) IN
               IF r.panicked THEN r ELSE Returned(Edited, r.cell)
        ELSE IF code = Char("u") /\ ctrl THEN Returned(Edited, <<>>)
        ELSE IF code.kind = "Char" THEN Returned(Edited, Append(s, code.c))
        ELSE IF code = Named("Backspace") THEN Returned(Edited, Pop(s))
        ELSE Returned(NoAction, s)

-----------------------------------------------------------------------------
(* The selection arithmetic of run_app, src/app.rs *)

\* a + b on isize: out of range it panics (overflow checks on) or wraps (off).
AddIsize(a, b, checks) ==
    IF ~IsizeOverflows(a + b) THEN [v |-> a + b, panicked |-> FALSE]
    ELSE IF checks THEN [v |-> 0, panicked |-> TRUE]
    ELSE [v |-> WrapIsize(a + b), panicked |-> FALSE]

\* A jump clamped to len instead of len - 1.
JumpIndex_ClampedToLen(current, delta, len, checks) ==
    LET sum == AddIsize(current, delta, checks) IN
    [v |-> Clamp(sum.v, 0, len), panicked |-> sum.panicked]

\* A jump that never reaches the first item.
JumpIndex_NeverFirst(current, delta, len, checks) ==
    LET sum == AddIsize(current, delta, checks) IN
    [v |-> Clamp(sum.v, 1, len - 1), panicked |-> sum.panicked]

\* (current as isize + offset).clamp(0, len as isize - 1) as usize
JumpIndex(current, delta, len, checks) ==
    LET sum == AddIsize(current, delta, checks) IN
    [v |-> Clamp(sum.v, 0, len - 1), panicked |-> sum.panicked]

\* (*offset as isize + scroll).clamp(0, max_offset as isize) as usize, with
\* max_offset = len.saturating_sub(1)
ScrollOffset(off, delta, len, checks) ==
    LET sum == AddIsize(off, delta, checks)
        max_offset == IF len = 0 THEN 0 ELSE len - 1
    IN  [v |-> Clamp(sum.v, 0, max_offset), panicked |-> sum.panicked]

\* ListState::select leaves the offset alone, except that select(None) resets it.
OffsetAfterSelect(index, off) == IF index = None THEN 0 ELSE off

-----------------------------------------------------------------------------
(* The key events of the model. *)

Digits == {"0", "1", "2", "3", "7"}
CommandChars == {"j", "k", "d", "u", "i", "g", "G", "s", "q", "e", "y"}
OtherChars == {"w", "x", " ", Nbsp}
NamedKeys == {"Down", "Up", "Enter", "Esc", "Backspace", "Tab"}

KeyCodes ==
    {Char(c) : c \in Digits \cup CommandChars \cup OtherChars}
        \cup {Named(n) : n \in NamedKeys}

\* Every key code with every set of modifiers: the keys handle_normal_mode_key
\* is checked on by itself.
AllKeys == {KeyEvent(code, m) : code \in KeyCodes, m \in SUBSET {"CONTROL", "SHIFT"}}

\* The key events the event loop is driven with: the unmodified keys, but the
\* digit 2 and the Up arrow, and the Control chords.
Keys ==
    {KeyEvent(code, NONE) : code \in KeyCodes \ {Char("2"), Named("Up")}}
        \cup {KeyEvent(Char(c), CONTROL) : c \in {"e", "y", "w", "u"}}

\* The characters typed while the input line is edited.
InsertChars == {"q", " ", Nbsp}

InsertKeys ==
    {k \in Keys : k.code.kind = "Char" =>
        \/ k.code.c \in InsertChars
        \/ k.code.c \in {"w", "u"} /\ "CONTROL" \in k.modifiers}

\* The issue lists the program is started with.
InitialIssues == {<<>>, << <<"a">>, <<"b">> >>}

-----------------------------------------------------------------------------
(* App::new and run_app, src/app.rs *)

Init ==
    /\ status = "running"
    /\ overflow_checks \in BOOLEAN
    /\ input_mode = "Normal"
    /\ pending_count = None
    /\ issues \in InitialIssues
    /\ selected = IF issues # <<>> THEN Some(0) ELSE None
    /\ offset = 0
    /\ input = <<>>
    /\ cursor = 0
    /\ sidebar_visible = FALSE
    /\ key = NoKey
    /\ action = NoAction
    /\ typed = <<>>
    /\ available_width = 0
    /\ constraints = <<>>

\* The call handle_normal_mode_key(&key, &mut pending_count).
NormalCall(k) == handle_normal_mode_key(k, pending_count, overflow_checks)

\* The call handle_editing_mode_key(&key, &mut app.input).
EditingCall(k) == handle_editing_mode_key(k, input)

\* A call that hands the count back to the cell when the key enters Insert mode.
NormalKey_CountSurvives(k, r) ==
    /\ AccumulatesDigit(k, pending_count) => Len(typed) < MaxDigits
    /\ key' = k
    /\ action' = r.action
    /\ pending_count' = IF r.action = EnterInput THEN pending_count ELSE r.cell
    /\ typed' = IF AccumulatesDigit(k, pending_count)
                  THEN Append(typed, ToDigit(k.code.c)) ELSE <<>>

\* A key event is read in Normal mode and handle_normal_mode_key is called.
NormalKey(k, r) ==
    /\ AccumulatesDigit(k, pending_count) => Len(typed) < MaxDigits
    /\ key' = k
    /\ action' = r.action
    /\ pending_count' = r.cell
    /\ typed' = IF AccumulatesDigit(k, pending_count)
                  THEN Append(typed, ToDigit(k.code.c)) ELSE <<>>

\* A key event is read in Insert mode and handle_editing_mode_key is called.
InsertKey(k, r) ==
    /\ Len(r.cell) <= MaxInput
    /\ key' = k
    /\ action' = r.action
    /\ input' = r.cell
    /\ typed' = <<>>

InNormal == status = "running" /\ input_mode = "Normal"
InInsert == status = "running" /\ input_mode = "Insert"

\* handle_normal_mode_key panics: run_app unwinds.
NormalPanic ==
    /\ InNormal
    /\ \E k \in Keys : LET r == NormalCall(k) IN
        /\ r.panicked
        /\ NormalKey(k, r)
    /\ status' = "panicked"
    /\ UNCHANGED <<overflow_checks, input_mode, issues, selected, offset, input,
                   cursor, sidebar_visible>>
    /\ UNCHANGED layoutVars

OnQuit ==
    /\ InNormal
    /\ \E k \in Keys : LET r == NormalCall(k) IN
        /\ ~r.panicked
        /\ r.action.tag = "Quit"
        /\ NormalKey(k, r)
    /\ status' = "quit"
    /\ UNCHANGED <<overflow_checks, input_mode, issues, selected, offset, input,
                   cursor, sidebar_visible>>
    /\ UNCHANGED layoutVars

\* The arm NormalModeAction::Jump(offset) of run_app.
JumpArm(delta) ==
    IF Len(issues) = 0
      THEN /\ selected' = None
           /\ offset' = OffsetAfterSelect(None, offset)
           /\ status' = status
      ELSE LET new_idx == JumpIndex(UnwrapOr(selected, 0), delta,
                                    Len(issues), overflow_checks)
           IN  IF new_idx.panicked
                 THEN /\ status' = "panicked"
                      /\ UNCHANGED <<selected, offset>>
                 ELSE /\ selected' = Some(new_idx.v)
                      /\ offset' = OffsetAfterSelect(Some(new_idx.v), offset)
                      /\ status' = status

OnJump ==
    /\ InNormal
    /\ \E k \in Keys : LET r == NormalCall(k) IN
        /\ ~r.panicked
        /\ r.action.tag = "Jump"
        /\ NormalKey(k, r)
        /\ JumpArm(r.action.n)
    /\ UNCHANGED <<overflow_checks, input_mode, issues, input, cursor, sidebar_visible>>
    /\ UNCHANGED layoutVars

OnScroll ==
    /\ InNormal
    /\ \E k \in Keys : LET r == NormalCall(k) IN
        /\ ~r.panicked
        /\ r.action.tag = "Scroll"
        /\ NormalKey(k, r)
        /\ IF Len(issues) = 0
             THEN UNCHANGED <<offset, status>>
             ELSE LET new_offset == ScrollOffset(offset, r.action.n,
                                                 Len(issues), overflow_checks)
                  IN  IF new_offset.panicked
                        THEN /\ status' = "panicked"
                             /\ UNCHANGED offset
                        ELSE /\ offset' = new_offset.v
                             /\ status' = status
    /\ UNCHANGED <<overflow_checks, input_mode, issues, selected, input, cursor,
                   sidebar_visible>>
    /\ UNCHANGED layoutVars

OnGotoTop ==
    /\ InNormal
    /\ \E k \in Keys : LET r == NormalCall(k) IN
        /\ ~r.panicked
        /\ r.action.tag = "GotoTop"
        /\ NormalKey(k, r)
    /\ selected' = IF issues # <<>> THEN Some(0) ELSE selected
    /\ UNCHANGED <<status, overflow_checks, input_mode, issues, offset, input, cursor,
                   sidebar_visible>>
    /\ UNCHANGED layoutVars

\* A GotoBottom arm that leaves the selection where it is.
OnGotoBottom_Stays ==
    /\ InNormal
    /\ \E k \in Keys : LET r == NormalCall(k) IN
        /\ ~r.panicked
        /\ r.action.tag = "GotoBottom"
        /\ NormalKey(k, r)
    /\ UNCHANGED <<status, overflow_checks, input_mode, issues, selected, offset, input,
                   cursor, sidebar_visible>>
    /\ UNCHANGED layoutVars

OnGotoBottom ==
    /\ InNormal
    /\ \E k \in Keys : LET r == NormalCall(k) IN
        /\ ~r.panicked
        /\ r.action.tag = "GotoBottom"
        /\ NormalKey(k, r)
    /\ selected' = IF issues # <<>> THEN Some(Len(issues) - 1) ELSE selected
    /\ UNCHANGED <<status, overflow_checks, input_mode, issues, offset, input, cursor,
                   sidebar_visible>>
    /\ UNCHANGED layoutVars

OnEnterInput ==
    /\ InNormal
    /\ \E k \in Keys : LET r == NormalCall(k) IN
        /\ ~r.panicked
        /\ r.action.tag = "EnterInput"
        /\ NormalKey(k, r)
    /\ input_mode' = "Insert"
    /\ UNCHANGED <<status, overflow_checks, issues, selected, offset, input, cursor,
                   sidebar_visible>>
    /\ UNCHANGED layoutVars

\* NormalModeAction::None, and ToggleSidebar, for which run_app's match has no
\* arm of its own: nothing of the App changes.
OnNormalNone ==
    /\ InNormal
    /\ \E k \in Keys : LET r == NormalCall(k) IN
        /\ ~r.panicked
        /\ r.action.tag \in {"None", "ToggleSidebar"}
        /\ NormalKey(k, r)
    /\ UNCHANGED <<status, overflow_checks, input_mode, issues, selected, offset,
                   input, cursor, sidebar_visible>>
    /\ UNCHANGED layoutVars

\* handle_editing_mode_key panics (String::truncate inside a character).
InsertPanic ==
    /\ InInsert
    /\ \E k \in InsertKeys : LET r == EditingCall(k) IN
        /\ r.panicked
        /\ InsertKey(k, r)
    /\ status' = "panicked"
    /\ UNCHANGED <<overflow_checks, input_mode, pending_count, issues, selected,
                   offset, cursor, sidebar_visible>>
    /\ UNCHANGED layoutVars

\* A Submit arm that pushes the issue and selects nothing.
OnSubmit_NoSelect ==
    /\ InInsert
    /\ Trim(input) # <<>> => Len(issues) < MaxIssues
    /\ \E k \in InsertKeys : LET r == EditingCall(k) IN
        /\ ~r.panicked
        /\ r.action.tag = "Submit"
        /\ key' = k
        /\ action' = r.action
        /\ typed' = <<>>
    /\ IF Trim(input) # <<>>
         THEN /\ issues' = Append(issues, Trim(input))
              /\ input' = <<>>
              /\ UNCHANGED <<selected, offset>>
         ELSE UNCHANGED <<issues, selected, offset, input>>
    /\ input_mode' = "Normal"
    /\ cursor' = 0
    /\ UNCHANGED <<status, overflow_checks, pending_count, sidebar_visible>>
    /\ UNCHANGED layoutVars

\* A Submit arm that stores the buffer untrimmed.
OnSubmit_Untrimmed ==
    /\ InInsert
    /\ Trim(input) # <<>> => Len(issues) < MaxIssues
    /\ \E k \in InsertKeys : LET r == EditingCall(k) IN
        /\ ~r.panicked
        /\ r.action.tag = "Submit"
        /\ key' = k
        /\ action' = r.action
        /\ typed' = <<>>
    /\ IF Trim(input) # <<>>
         THEN /\ issues' = Append(issues, input)
              /\ selected' = Some(Len(issues') - 1)
              /\ offset' = OffsetAfterSelect(selected', offset)
              /\ input' = <<>>
         ELSE UNCHANGED <<issues, selected, offset, input>>
    /\ input_mode' = "Normal"
    /\ cursor' = 0
    /\ UNCHANGED <<status, overflow_checks, pending_count, sidebar_visible>>
    /\ UNCHANGED layoutVars

OnSubmit ==
    /\ InInsert
    /\ Trim(input) # <<>> => Len(issues) < MaxIssues
    /\ \E k \in InsertKeys : LET r == EditingCall(k) IN
        /\ ~r.panicked
        /\ r.action.tag = "Submit"
        /\ key' = k
        /\ action' = r.action
        /\ typed' = <<>>
    /\ IF Trim(input) # <<>>
         THEN /\ issues' = Append(issues, Trim(input))
              /\ selected' = Some(Len(issues') - 1)
              /\ offset' = OffsetAfterSelect(selected', offset)
              /\ input' = <<>>
         ELSE UNCHANGED <<issues, selected, offset, input>>
    /\ input_mode' = "Normal"
    /\ cursor' = 0
    /\ UNCHANGED <<status, overflow_checks, pending_count, sidebar_visible>>
    /\ UNCHANGED layoutVars

\* A copy of the Cancel arm that forgets to leave Insert mode.
CancelArm_StaysInsert ==
    /\ input_mode' = "Insert"
    /\ cursor' = 0

\* The arm EditingModeAction::Cancel of run_app.
CancelArm ==
    /\ input_mode' = "Normal"
    /\ cursor' = 0

OnCancel ==
    /\ InInsert
    /\ \E k \in InsertKeys : LET r == EditingCall(k) IN
        /\ ~r.panicked
        /\ r.action.tag = "Cancel"
        /\ InsertKey(k, r)
    /\ CancelArm
    /\ UNCHANGED <<status, overflow_checks, pending_count, issues, selected, offset,
                   sidebar_visible>>
    /\ UNCHANGED layoutVars

\* The arm EditingModeAction::Edited of run_app: the cursor goes to
\* app.input.len().
EditedArm == cursor' = StrLen(input')

\* An Edited arm that leaves the cursor where it was.
OnEdited_CursorStays ==
    /\ InInsert
    /\ \E k \in InsertKeys : LET r == EditingCall(k) IN
        /\ ~r.panicked
        /\ r.action.tag = "Edited"
        /\ InsertKey(k, r)
    /\ UNCHANGED <<status, overflow_checks, input_mode, pending_count, issues,
                   selected, offset, cursor, sidebar_visible>>
    /\ UNCHANGED layoutVars

OnEdited ==
    /\ InInsert
    /\ \E k \in InsertKeys : LET r == EditingCall(k) IN
        /\ ~r.panicked
        /\ r.action.tag = "Edited"
        /\ InsertKey(k, r)
    /\ EditedArm
    /\ UNCHANGED <<status, overflow_checks, input_mode, pending_count, issues,
                   selected, offset, sidebar_visible>>
    /\ UNCHANGED layoutVars

OnEditingNone ==
    /\ InInsert
    /\ \E k \in InsertKeys : LET r == EditingCall(k) IN
        /\ ~r.panicked
        /\ r.action.tag = "None"
        /\ InsertKey(k, r)
    /\ UNCHANGED <<status, overflow_checks, input_mode, pending_count, issues,
                   selected, offset, cursor, sidebar_visible>>
    /\ UNCHANGED layoutVars

Next ==
    \/ NormalPanic
    \/ OnQuit
    \/ OnJump
    \/ OnScroll
    \/ OnGotoTop
    \/ OnGotoBottom
    \/ OnEnterInput
    \/ OnNormalNone
    \/ InsertPanic
    \/ OnSubmit
    \/ OnCancel
    \/ OnEdited
    \/ OnEditingNone

Spec == Init /\ [][Next]_vars

-----------------------------------------------------------------------------
(* handle_normal_mode_key by itself: any key, with any modifiers, follows any. *)

DispatchInit ==
    /\ status = "running"
    /\ overflow_checks \in BOOLEAN
    /\ input_mode = "Normal"
    /\ pending_count = None
    /\ issues = <<>>
    /\ selected = None
    /\ offset = 0
    /\ input = <<>>
    /\ cursor = 0
    /\ sidebar_visible = FALSE
    /\ key = NoKey
    /\ action = NoAction
    /\ typed = <<>>
    /\ available_width = 0
    /\ constraints = <<>>

Dispatch ==
    /\ status = "running"
    /\ \E k \in AllKeys : LET r == NormalCall(k) IN
        /\ NormalKey(k, r)
        /\ status' = IF r.panicked THEN "panicked" ELSE status
    /\ UNCHANGED <<overflow_checks, input_mode, issues, selected, offset, input,
                   cursor, sidebar_visible>>
    /\ UNCHANGED layoutVars

SpecDispatch == DispatchInit /\ [][Dispatch]_vars

-----------------------------------------------------------------------------
(* The input line by itself: handle_editing_mode_key and the Edited arm of
   run_app, on character keys, Backspace and Tab with any modifiers. *)

\* The longest buffer of these runs.
MaxEdit == 3

EditChars == {"q", "w", "u", "1", " ", Nbsp}

EditKeys ==
    {KeyEvent(code, m) :
        code \in {Char(c) : c \in EditChars} \cup {Named("Backspace"), Named("Tab")},
        m \in SUBSET {"CONTROL", "SHIFT"}}

\* The state after EnterInput on a fresh App.
EditorInit ==
    /\ status = "running"
    /\ overflow_checks \in BOOLEAN
    /\ input_mode = "Insert"
    /\ pending_count = None
    /\ issues = <<>>
    /\ selected = None
    /\ offset = 0
    /\ input = <<>>
    /\ cursor = 0
    /\ sidebar_visible = FALSE
    /\ key = KeyEvent(Char("i"), NONE)
    /\ action = EnterInput
    /\ typed = <<>>
    /\ available_width = 0
    /\ constraints = <<>>

\* A key event is read in Insert mode: the handler panics, or returns Edited
\* or None and run_app takes that arm.
EditorKey ==
    /\ InInsert
    /\ \E k \in EditKeys : LET r == EditingCall(k) IN
        /\ Len(r.cell) <= MaxEdit
        /\ key' = k
        /\ action' = r.action
        /\ input' = r.cell
        /\ IF r.panicked
             THEN status' = "panicked" /\ UNCHANGED cursor
             ELSE /\ status' = status
                  /\ IF r.action = Edited THEN EditedArm ELSE UNCHANGED cursor
    /\ UNCHANGED <<overflow_checks, input_mode, pending_count, issues, selected,
                   offset, sidebar_visible, typed>>
    /\ UNCHANGED layoutVars

SpecEditor == EditorInit /\ [][EditorKey]_vars

-----------------------------------------------------------------------------
(* The Jump arm of run_app by itself: any jump of up to MaxJump items either
   way follows any, over lists of up to MaxJumpLen issues. *)

\* The longest list of these runs.
MaxJumpLen == 4

\* The longest jump of these runs.
MaxJump == 5

JumpLists == {[i \in 1..n |-> <<"a">>] : n \in 0..MaxJumpLen}

JumpInit ==
    /\ status = "running"
    /\ overflow_checks \in BOOLEAN
    /\ input_mode = "Normal"
    /\ pending_count = None
    /\ issues \in JumpLists
    /\ selected \in IF issues = <<>> THEN {None}
                    ELSE {Some(i) : i \in 0..(Len(issues) - 1)}
    /\ offset = 0
    /\ input = <<>>
    /\ cursor = 0
    /\ sidebar_visible = FALSE
    /\ key = NoKey
    /\ action = NoAction
    /\ typed = <<>>
    /\ available_width = 0
    /\ constraints = <<>>

ApplyJump ==
    /\ InNormal
    /\ \E delta \in (0 - MaxJump)..MaxJump :
        /\ action' = Jump(delta)
        /\ JumpArm(delta)
    /\ UNCHANGED <<overflow_checks, input_mode, pending_count, issues, input, cursor,
                   sidebar_visible, key, typed>>
    /\ UNCHANGED layoutVars

SpecJump == JumpInit /\ [][ApplyJump]_vars

-----------------------------------------------------------------------------
(* render_issue_list, src/ui/issue_list.rs *)

U16Max == 65535

Fixed(w) == [kind |-> "Fixed", w |-> w, factor |-> 0, min |-> w]
Flexible(factor, min) == [kind |-> "Flexible", w |-> 0, factor |-> factor, min |-> min]

RENDER_ORDER == <<"Id", "Priority", "Summary", "Status">>
PRIORITY == <<"Summary", "Status", "Id", "Priority">>

\* Field::width
FieldWidth(field) ==
    CASE field = "Id" -> Fixed(8)
      [] field = "Summary" -> Flexible(5, 20)
      [] field = "Status" -> Flexible(1, 5)
      [] field = "Priority" -> Fixed(1)

\* The match that takes min of Flexible and w of Fixed.
MinWidth(field) ==
    IF FieldWidth(field).kind = "Flexible" THEN FieldWidth(field).min
    ELSE FieldWidth(field).w

\* The match that takes factor of Flexible and 0 of Fixed.
FlexFactor(field) ==
    IF FieldWidth(field).kind = "Flexible" THEN FieldWidth(field).factor ELSE 0

\* a + b and a * b on u16: out of range they panic (overflow checks on) or
\* wrap (off).
U16(v, checks) ==
    IF v <= U16Max THEN [v |-> v, panicked |-> FALSE]
    ELSE IF checks THEN [v |-> 0, panicked |-> TRUE]
    ELSE [v |-> v % (U16Max + 1), panicked |-> FALSE]

\* A test that forgets the gap in front of the field.
Fits_NoGap(used_width, min_w, width) == used_width + min_w <= width

\* The test that admits one more field.
Fits(used_width, min_w, width) == used_width + min_w + 2 <= width

RECURSIVE AddFields_StopsAtMisfit(_, _, _, _)
\* A loop that breaks at the first field that does not fit.
AddFields_StopsAtMisfit(i, used_width, shown_fields, width) ==
    IF i > Len(PRIORITY) THEN [used_width |-> used_width, shown_fields |-> shown_fields]
    ELSE LET min_w == MinWidth(PRIORITY[i]) IN
         IF Fits(used_width, min_w, width)
           THEN AddFields_StopsAtMisfit(i + 1, used_width + min_w + 2,
                                        Append(shown_fields, PRIORITY[i]), width)
           ELSE [used_width |-> used_width, shown_fields |-> shown_fields]

RECURSIVE AddFields(_, _, _, _)
\* The loop over Field::PRIORITY.iter().skip(1), from its i-th field on.
AddFields(i, used_width, shown_fields, width) ==
    IF i > Len(PRIORITY) THEN [used_width |-> used_width, shown_fields |-> shown_fields]
    ELSE LET min_w == MinWidth(PRIORITY[i]) IN
         IF Fits(used_width, min_w, width)
           THEN AddFields(i + 1, used_width + min_w + 2,
                          Append(shown_fields, PRIORITY[i]), width)
           ELSE AddFields(i + 1, used_width, shown_fields, width)

\* shown_fields when the loop is done; the first field is pushed before it.
ShownFields(width) ==
    AddFields(2, MinWidth(PRIORITY[1]), <<PRIORITY[1]>>, width).shown_fields

RECURSIVE SumOver(_, _)
\* iter().sum() over the first n numbers of a sequence.
SumOver(seq, n) == IF n = 0 THEN 0 ELSE SumOver(seq, n - 1) + seq[n]

TotalFlex(shown_fields) ==
    SumOver([i \in 1..Len(shown_fields) |-> FlexFactor(shown_fields[i])],
            Len(shown_fields))

\* A layout that reserves nothing for the gaps between columns.
SpacingTotal_None(shown_fields) == 0

\* (shown_fields.len().saturating_sub(1) as u16) * 2
SpacingTotal(shown_fields) ==
    (IF Len(shown_fields) = 0 THEN 0 ELSE Len(shown_fields) - 1) * 2

FixedTotal(shown_fields) ==
    SumOver([i \in 1..Len(shown_fields) |-> MinWidth(shown_fields[i])],
            Len(shown_fields)) + SpacingTotal(shown_fields)

\* available_width.saturating_sub(fixed_total)
RemainingWidth(width, shown_fields) ==
    IF width >= FixedTotal(shown_fields) THEN width - FixedTotal(shown_fields) ELSE 0

\* min + (remaining_width * factor / total_flex), or min when total_flex is 0.
FlexWidth(field, remaining_width, total_flex, checks) ==
    IF total_flex > 0
      THEN LET product == U16(remaining_width * FlexFactor(field), checks)
               sum == U16(MinWidth(field) + product.v \div total_flex, checks)
           IN  [v |-> sum.v, panicked |-> product.panicked \/ sum.panicked]
      ELSE [v |-> MinWidth(field), panicked |-> FALSE]

\* Columns emitted in the order the fields were admitted.
InRenderOrder_ByPriority(shown_fields) == shown_fields

\* Field::RENDER_ORDER.iter().filter(|f| shown_fields.contains(f))
InRenderOrder(shown_fields) ==
    LET Shown(f) == \E i \in 1..Len(shown_fields) : shown_fields[i] = f
    IN  SelectSeq(RENDER_ORDER, Shown)

\* The fields whose cells make up a row, in the row's order:
\* Field::RENDER_ORDER.iter().filter(|f| shown_fields.contains(f)).map(cell)
RowCells(shown_fields) ==
    LET Contains(f) == f \in {shown_fields[i] : i \in 1..Len(shown_fields)}
    IN  SelectSeq(RENDER_ORDER, Contains)

\* The constraint pushed for one field: Length(w) or Min(flex_width).
ConstraintOf(field, remaining_width, total_flex, checks) ==
    IF FieldWidth(field).kind = "Fixed"
      THEN [field |-> field, kind |-> "Length", w |-> FieldWidth(field).w,
            panicked |-> FALSE]
      ELSE LET fw == FlexWidth(field, remaining_width, total_flex, checks) IN
           [field |-> field, kind |-> "Min", w |-> fw.v, panicked |-> fw.panicked]

\* The constraints render_issue_list hands to Table::new, or a panic on the way.
render_issue_list(width, checks) ==
    LET shown_fields == ShownFields(width)
        total_flex == TotalFlex(shown_fields)
        remaining_width == RemainingWidth(width, shown_fields)
        order == InRenderOrder(shown_fields)
        cs == [i \in 1..Len(order) |->
                 ConstraintOf(order[i], remaining_width, total_flex, checks)]
    IN  [constraints |-> [i \in 1..Len(order) |->
                            [field |-> cs[i].field, kind |-> cs[i].kind, w |-> cs[i].w]],
         panicked |-> \E i \in 1..Len(order) : cs[i].panicked]

LayoutInit ==
    /\ status = "running"
    /\ overflow_checks \in BOOLEAN
    /\ input_mode = "Normal"
    /\ pending_count = None
    /\ issues = <<>>
    /\ selected = None
    /\ offset = 0
    /\ input = <<>>
    /\ cursor = 0
    /\ sidebar_visible = FALSE
    /\ key = NoKey
    /\ action = NoAction
    /\ typed = <<>>
    /\ available_width \in 0..U16Max
    /\ constraints = <<>>

\* terminal.draw: a frame of width available_width is laid out.
Draw ==
    /\ status = "running"
    /\ LET r == render_issue_list(available_width, overflow_checks) IN
        IF r.panicked
          THEN /\ status' = "panicked"
               /\ UNCHANGED constraints
          ELSE /\ constraints' = r.constraints
               /\ status' = status
    /\ UNCHANGED <<overflow_checks, available_width, key, action, typed>>
    /\ UNCHANGED appVars

SpecLayout == LayoutInit /\ [][Draw]_vars

-----------------------------------------------------------------------------
(* Definitions the claims are stated with. *)

RECURSIVE Decimal(_)
\* The decimal value of a sequence of digits.
Decimal(ds) ==
    IF ds = <<>> THEN 0 ELSE 10 * Decimal(Prefix(ds, Len(ds) - 1)) + ds[Len(ds)]

IsDigitKey(k) == k.code.kind = "Char" /\ IsAsciiDigit(k.code.c)

Unmodified(c) == KeyEvent(Char(c), NONE)
Ctrl(c) == KeyEvent(Char(c), CONTROL)

-----------------------------------------------------------------------------
(* C1: in Normal mode every digit key of a sequence that does not start with 0
   returns None, and an unmodified j after it returns Jump(+n), n the decimal
   value of the digits typed; a 0 typed while no count is pending returns None
   and starts no count, a 0 typed after a digit is accumulated. *)
C1_DigitsThenJ ==
    [][status = "running" =>
        /\ AccumulatesDigit(key', pending_count) =>
              /\ status' = "running"
              /\ action' = NoAction
              /\ pending_count' = Some(Decimal(typed'))
        /\ IsDigitKey(key') =>
              AccumulatesDigit(key', pending_count)
                  = ~(key'.code.c = "0" /\ pending_count = None)
        /\ IsDigitKey(key') /\ ~AccumulatesDigit(key', pending_count) =>
              action' = NoAction /\ pending_count' = None
        /\ key' = Unmodified("j") /\ typed # <<>> =>
              action' = Jump(Decimal(typed))
      ]_vars

-----------------------------------------------------------------------------
(* C2: the Normal-mode key that is not accumulated as a digit leaves the
   pending count empty, whatever the key and whether or not it uses the count;
   so an unmodified j that finds no count pending is Jump(+1), and d is
   Jump(+20) with or without a count. *)
C2_CountConsumed ==
    [][InNormal /\ ~AccumulatesDigit(key', pending_count) =>
        /\ pending_count' = None
        /\ key' = Unmodified("j") /\ pending_count = None => action' = Jump(1)
        /\ key' = Unmodified("d") => action' = Jump(20)
      ]_vars

\* k has used a count of 13 and the cell is empty again.
C2_Witness ==
    /\ key = Unmodified("k")
    /\ action = Jump(0 - 13)
    /\ pending_count = None

-----------------------------------------------------------------------------
(* C3: the mode is Normal at the start; a key event takes it from Normal to
   Insert exactly when it resolves to EnterInput, which only an unmodified i
   does, and from Insert to Normal exactly when it resolves to Submit (Enter)
   or Cancel (Esc); every other key event leaves the mode as it was. *)
C3_ModeChanges ==
    /\ input_mode = "Normal"
    /\ [][/\ (input_mode = "Normal" /\ input_mode' = "Insert")
               <=> (InNormal /\ action' = EnterInput)
          /\ (input_mode = "Insert" /\ input_mode' = "Normal")
               <=> (InInsert /\ action' \in {Submit, Cancel})
          /\ InNormal => (action' = EnterInput <=> key' = Unmodified("i"))
          /\ InInsert => /\ action' = Submit <=> key'.code = Named("Enter")
                         /\ action' = Cancel <=> key'.code = Named("Esc")
         ]_vars

\* Insert mode was entered and has been left again by Esc.
C3_Witness ==
    /\ input_mode = "Normal"
    /\ key.code = Named("Esc")
    /\ action = Cancel

-----------------------------------------------------------------------------
(* C4: in every reachable state with a non-empty issue list an index is
   selected and 0 <= index < length and 0 <= offset <= length - 1; while the
   list is empty the offset is 0. *)
C4_SelectionInRange ==
    IF issues = <<>>
      THEN offset = 0
      ELSE /\ selected # None
           /\ 0 <= selected[1] /\ selected[1] < Len(issues)
           /\ 0 <= offset /\ offset <= Len(issues) - 1

\* A jump of 20 over a list of two has stopped at the last issue.
C4_Witness ==
    /\ action = Jump(20)
    /\ Len(issues) = 2
    /\ selected = Some(1)

-----------------------------------------------------------------------------
(* C5: Control+w in Insert mode returns Edited and turns any buffer into: the
   buffer up to and including the last whitespace character of the buffer
   without its trailing whitespace, or the empty buffer if there is none. *)
C5_WordDeleted(s) ==
    LET t == TrimEnd(s) IN
    IF WhitespaceAt(t) = {} THEN <<>> ELSE Prefix(s, SetMax(WhitespaceAt(t)))

C5_DeletePrevWord ==
    [][InInsert /\ key' = Ctrl("w") =>
        /\ status' = "running"
        /\ action' = Edited
        /\ input' = C5_WordDeleted(input)
      ]_vars

-----------------------------------------------------------------------------
(* C6: whenever a layout is emitted, the widths of its columns plus 2 for each
   gap between them do not exceed the available width, unless Summary is the
   only column and its minimum of 20 is more than the available width; at
   width 40 the layout is Id 8, Priority 1, Summary 20, Status 5, 40 in all. *)
C6_EmittedWidth ==
    SumOver([i \in 1..Len(constraints) |-> constraints[i].w], Len(constraints))

C6_Total == C6_EmittedWidth + 2 * (Len(constraints) - 1)

C6_WidthWithinViewport ==
    constraints # <<>> =>
        /\ \/ C6_Total <= available_width
           \/ /\ Len(constraints) = 1
              /\ constraints[1].field = "Summary"
              /\ MinWidth("Summary") > available_width
        /\ available_width = 40 =>
              /\ constraints = << [field |-> "Id", kind |-> "Length", w |-> 8],
                                  [field |-> "Priority", kind |-> "Length", w |-> 1],
                                  [field |-> "Summary", kind |-> "Min", w |-> 20],
                                  [field |-> "Status", kind |-> "Min", w |-> 5] >>
              /\ C6_Total = 40

\* The four columns have been laid out in a width of 40.
C6_Witness ==
    /\ available_width = 40
    /\ Len(constraints) = 4

-----------------------------------------------------------------------------
(* C7: a Normal-mode key that is not accumulated as a digit returns the action
   of the table, with count the pending count or 1 when none is pending:
   j/Down Jump(+count), k/Up Jump(-count), d Jump(+20), u Jump(-20),
   i EnterInput, g GotoTop, G GotoBottom, s ToggleSidebar, q Quit, all without
   modifiers; Control+e Scroll(+count), Control+y Scroll(-count); anything else
   None. *)
C7_Table(count, k) ==
    LET m == k.modifiers
        code == k.code
    IN  CASE m = NONE /\ code \in {Char("j"), Named("Down")} -> Jump(count)
          [] m = NONE /\ code \in {Char("k"), Named("Up")} -> Jump(0 - count)
          [] m = NONE /\ code = Char("d") -> Jump(20)
          [] m = NONE /\ code = Char("u") -> Jump(0 - 20)
          [] m = NONE /\ code = Char("i") -> EnterInput
          [] m = NONE /\ code = Char("g") -> GotoTop
          [] m = NONE /\ code = Char("G") -> GotoBottom
          [] m = NONE /\ code = Char("s") -> ToggleSidebar
          [] m = NONE /\ code = Char("q") -> Quit
          [] m = CONTROL /\ code = Char("e") -> Scroll(count)
          [] m = CONTROL /\ code = Char("y") -> Scroll(0 - count)
          [] OTHER -> NoAction

C7_KeyTable ==
    [][status = "running" /\ ~AccumulatesDigit(key', pending_count) =>
        /\ status' = "running"
        /\ action' = C7_Table(UnwrapOr(pending_count, 1), key')
      ]_vars

-----------------------------------------------------------------------------
(* C8: after Enter is processed in Insert mode the buffer is empty, whatever
   it held before. *)
C8_SubmitClears == action = Submit => input = <<>>

-----------------------------------------------------------------------------
(* C9: Esc in Insert mode resolves to Cancel and leaves the buffer as it was;
   the mode becomes Normal, the cursor 0, and nothing else changes; entering
   Insert mode leaves the buffer as it was too, so the line is still there. *)
C9_CancelRetainsBuffer ==
    [][/\ InInsert /\ key'.code = Named("Esc") =>
            /\ action' = Cancel
            /\ input' = input
            /\ input_mode' = "Normal"
            /\ cursor' = 0
            /\ UNCHANGED <<status, pending_count, issues, selected, offset,
                           sidebar_visible>>
       /\ InNormal /\ action' = EnterInput => input' = input
      ]_vars

\* Insert mode has been entered again with the text a Cancel left behind.
C9_Witness ==
    /\ input_mode = "Insert"
    /\ action = EnterInput
    /\ Trim(input) # <<>>

-----------------------------------------------------------------------------
(* C10: a Normal-mode key that resolves to Jump(delta) leaves no selection on
   an empty list, and on a list of length L selects
   clamp(current + delta, 0, L - 1), current being the selected index or 0 when
   none is selected. *)
C10_JumpClamps ==
    [][InNormal /\ action'.tag = "Jump" =>
        /\ status' = "running"
        /\ selected' = IF Len(issues) = 0 THEN None
                       ELSE Some(Clamp(UnwrapOr(selected, 0) + action'.n,
                                       0, Len(issues) - 1))
      ]_vars

-----------------------------------------------------------------------------
(* C11: on a list of N > 0 issues a key that resolves to GotoBottom selects
   N - 1 and one that resolves to GotoTop selects 0, whatever was selected;
   on an empty list nothing is selected before and after every Normal-mode
   key, whatever action it resolves to. *)
C11_GotoEnds ==
    [][InNormal =>
        /\ action' = GotoBottom /\ issues # <<>> =>
              selected' = Some(Len(issues) - 1)
        /\ action' = GotoTop /\ issues # <<>> => selected' = Some(0)
        /\ issues = <<>> => selected = None /\ selected' = None
      ]_vars

\* G has moved the selection from the first issue to the last of two.
C11_Witness ==
    /\ key = Unmodified("G")
    /\ action = GotoBottom
    /\ Len(issues) = 2
    /\ selected = Some(1)

-----------------------------------------------------------------------------
(* C12: a Normal-mode key that resolves to Scroll(delta) sets the offset to
   clamp(offset + delta, 0, max(L - 1, 0)) on a list of length L > 0, changes
   nothing on an empty list, and never changes the selected index or anything
   else of the App; a key that resolves to Jump, GotoTop or GotoBottom leaves
   the offset as it was. *)
C12_ScrollOnlyOffset ==
    [][InNormal =>
        /\ action'.tag = "Scroll" =>
              /\ status' = "running"
              /\ offset' = IF Len(issues) = 0 THEN offset
                           ELSE Clamp(offset + action'.n, 0, Len(issues) - 1)
              /\ UNCHANGED <<selected, issues, input_mode, input, cursor,
                             sidebar_visible>>
        /\ action'.tag \in {"Jump", "GotoTop", "GotoBottom"} => offset' = offset
      ]_vars

-----------------------------------------------------------------------------
(* C13: on any list, from any selected index i, a Jump(k) that is not clamped
   (0 <= i + k <= length - 1) selects i + k, and the Jump(-k) applied there
   selects i again; k >= 0 is Jump(+k) then Jump(-k), k <= 0 is Jump(-k) then
   Jump(+k).  A Jump(-k) that follows a Jump(k) and is not clamped moves the
   selection back by k. *)
C13_JumpRoundTrip ==
    [][InNormal /\ action'.tag = "Jump" /\ selected # None =>
        LET i == selected[1]
            k == action'.n
            len == Len(issues)
        IN  /\ 0 <= i + k /\ i + k <= len - 1 =>
                  /\ selected' = Some(i + k)
                  /\ JumpIndex(i + k, 0 - k, len, overflow_checks)
                        = [v |-> i, panicked |-> FALSE]
            /\ action = Jump(0 - k) /\ 0 <= i + k /\ i + k <= len - 1 =>
                  selected' = Some(i + k)
      ]_vars

\* A jump back by 2 has arrived at index 1 of a list of four.
C13_Witness ==
    /\ action = Jump(0 - 2)
    /\ Len(issues) = 4
    /\ selected = Some(1)

-----------------------------------------------------------------------------
(* The fields of the columns emitted, left to right. *)
EmittedFields == [i \in 1..Len(constraints) |-> constraints[i].field]

Elements(seq) == {seq[i] : i \in 1..Len(seq)}

-----------------------------------------------------------------------------
(* C14: for every available width the fields shown are Summary, with 20 as
   the used width to start from, and then, taken in the order Status (5),
   Id (8), Priority (1), each field with used + m + 2 <= width, used growing by
   m + 2 with each field taken; nothing else, and nothing twice. *)
C14_Shown(width) ==
    LET used1 == 20
        status_in == used1 + 5 + 2 <= width
        used2 == IF status_in THEN used1 + 5 + 2 ELSE used1
        id_in == used2 + 8 + 2 <= width
        used3 == IF id_in THEN used2 + 8 + 2 ELSE used2
        priority_in == used3 + 1 + 2 <= width
    IN  {"Summary"} \cup (IF status_in THEN {"Status"} ELSE {})
                    \cup (IF id_in THEN {"Id"} ELSE {})
                    \cup (IF priority_in THEN {"Priority"} ELSE {})

C14_ShownSet ==
    /\ Elements(ShownFields(available_width)) = C14_Shown(available_width)
    /\ Len(ShownFields(available_width)) = Cardinality(C14_Shown(available_width))
    /\ ShownFields(available_width)[1] = "Summary"
    /\ constraints # <<>> => Elements(EmittedFields) = C14_Shown(available_width)

\* At width 30 Id (27 + 8 + 2) is passed over and Priority (27 + 1 + 2) taken.
C14_Witness ==
    /\ available_width = 30
    /\ EmittedFields = <<"Priority", "Summary", "Status">>

-----------------------------------------------------------------------------
(* C15: in every layout emitted a Fixed field has its fixed width and a
   Flexible field has min + floor(remaining * factor / total_flex), with
   remaining = max(width - (sum of the shown minimum widths + 2 * (shown
   count - 1)), 0) and total_flex the sum of the shown fields' factors (just
   min when total_flex is 0). *)
C15_Width(field, width) ==
    LET shown == EmittedFields
        n == Len(shown)
        fixed_total == SumOver([i \in 1..n |-> MinWidth(shown[i])], n) + 2 * (n - 1)
        remaining == IF width - fixed_total > 0 THEN width - fixed_total ELSE 0
        total_flex == SumOver([i \in 1..n |-> FlexFactor(shown[i])], n)
    IN  IF FieldWidth(field).kind = "Fixed" THEN FieldWidth(field).w
        ELSE IF total_flex = 0 THEN MinWidth(field)
        ELSE MinWidth(field) + (remaining * FlexFactor(field)) \div total_flex

C15_FinalWidths ==
    \A i \in 1..Len(constraints) :
        constraints[i].w = C15_Width(constraints[i].field, available_width)

-----------------------------------------------------------------------------
(* C16: for every width the columns emitted are the render order
   Id, Priority, Summary, Status restricted to the fields shown, each field
   once, and the cells of a row are in the same order as the columns. *)
C16_Restricted(shown) ==
    LET IsShown(f) == f \in shown
    IN  SelectSeq(<<"Id", "Priority", "Summary", "Status">>, IsShown)

C16_RenderOrder ==
    LET shown_fields == ShownFields(available_width) IN
    /\ RowCells(shown_fields) = C16_Restricted(Elements(shown_fields))
    /\ constraints # <<>> =>
          /\ EmittedFields = C16_Restricted(Elements(shown_fields))
          /\ EmittedFields = RowCells(shown_fields)
          /\ \A i, j \in 1..Len(constraints) :
                i # j => constraints[i].field # constraints[j].field

\* At width 37 Id, admitted last, is the first column.
C16_Witness ==
    /\ available_width = 37
    /\ EmittedFields = <<"Id", "Summary", "Status">>

-----------------------------------------------------------------------------
(* C17: Control+u in Insert mode returns Edited and leaves the buffer empty,
   whatever it held; no u is appended. *)
C17_CtrlUClears ==
    [][InInsert /\ key' = Ctrl("u") =>
        /\ status' = "running"
        /\ action' = Edited
        /\ input' = <<>>
      ]_vars

\* Control+u has been processed in Insert mode.
C17_Witness ==
    /\ input_mode = "Insert"
    /\ key = Ctrl("u")
    /\ action = Edited
    /\ input = <<>>

-----------------------------------------------------------------------------
(* C18: in every reachable state 0 <= cursor <= length of the buffer in
   bytes, and in the state a key that edited the buffer (character, Backspace,
   Control+w, Control+u: the keys that return Edited) leaves behind, the
   cursor is that length. *)
C18_CursorInBuffer ==
    /\ 0 <= cursor
    /\ cursor <= StrLen(input)
    /\ action = Edited => cursor = StrLen(input)

\* A one-byte character after a two-byte one: the cursor is at byte 3.
C18_Witness ==
    /\ action = Edited
    /\ Len(input) = 2
    /\ cursor = 3

-----------------------------------------------------------------------------
(* C19 as stated: in the state any key that resolved to a Normal-mode action
   other than None, or any digit key of Normal mode, leaves behind, the
   pending count is empty. *)
C19_NormalActions ==
    {"Quit", "Jump", "Scroll", "EnterInput", "GotoTop", "GotoBottom", "ToggleSidebar"}

C19_EmptyAfterDigit ==
    (action.tag \in C19_NormalActions \/ (input_mode = "Normal" /\ IsDigitKey(key)))
        => pending_count = None

(* C19, amended: the pending count is empty after a key that resolved to a
   Normal-mode action other than None, and after a 0 typed while no count was
   pending; after a digit key that is accumulated the cell is not empty: it
   holds the count. *)
C19_CellAfterKey ==
    /\ action.tag \in C19_NormalActions => pending_count = None
    /\ input_mode = "Normal" /\ IsDigitKey(key) =>
          IF typed # <<>> THEN pending_count # None
          ELSE key.code.c = "0" /\ pending_count = None

\* The digits 1 and 3 have been typed and the cell holds 13.
C19_Witness ==
    /\ key = Unmodified("3")
    /\ typed = <<1, 3>>
    /\ pending_count = Some(13)

-----------------------------------------------------------------------------
(* C20: the selected index and the scroll offset change only in a step in
   which a Normal-mode key resolves to Jump, Scroll, GotoTop or GotoBottom;
   every other key event, every Insert-mode key included, leaves both as
   they were. *)
C20_SelectionOnlyByController ==
    [][selected' # selected \/ offset' # offset =>
        /\ InNormal
        /\ action'.tag \in {"Jump", "Scroll", "GotoTop", "GotoBottom"}
      ]_vars

-----------------------------------------------------------------------------
(* C21 *)

\* The keys whose action carries the count.
C21_UsesCount(k) ==
    \/ k.modifiers = NONE /\ k.code \in {Char("j"), Named("Down"), Char("k"), Named("Up")}
    \/ k.modifiers = CONTROL /\ k.code \in {Char("e"), Char("y")}

\* C21: applying Jump or Scroll never under- or overflows: for every count
\* typed with digit keys and every current index and offset, the count as a
\* signed integer is the count, its negation and the sum current + delta are
\* within isize, the key does not abort the program, and the result is the sum
\* clamped into the list.
C21_NoOverflow ==
    [][(InNormal /\ ~AccumulatesDigit(key', pending_count)) =>
         LET count == UnwrapOr(pending_count, 1) IN
         /\ status' # "panicked"
         /\ C21_UsesCount(key') =>
              /\ count <= IsizeMax
              /\ 0 - count >= IsizeMin
              /\ action'.n \in {count, 0 - count}
         /\ (action'.tag = "Jump" /\ issues # <<>>) =>
              LET sum == UnwrapOr(selected, 0) + action'.n IN
              /\ ~IsizeOverflows(sum)
              /\ selected' = Some(Clamp(sum, 0, Len(issues) - 1))
         /\ (action'.tag = "Scroll" /\ issues # <<>>) =>
              LET sum == offset + action'.n IN
              /\ ~IsizeOverflows(sum)
              /\ offset' = Clamp(sum, 0, Len(issues) - 1)]_vars

-----------------------------------------------------------------------------
(* C22 *)

\* C22: the event loop ends exactly when a key event resolves to Quit: in
\* Normal mode an unmodified q ends it, with or without a pending count, and
\* nothing else does; in Insert mode no key ends it, a q is appended to the
\* buffer; once ended, no key event is processed.
C22_EndsOnQuit ==
    [][/\ (status = "running" /\ status' # "running") =>
            /\ input_mode = "Normal"
            /\ key' = Unmodified("q")
            /\ action' = Quit
       /\ (InNormal /\ key' = Unmodified("q")) => status' = "quit"
       /\ InInsert =>
            /\ status' = "running"
            /\ key' = Unmodified("q") => input' = Append(input, "q")
       /\ status # "running" => UNCHANGED vars]_vars

-----------------------------------------------------------------------------
(* C23 *)

\* The chords Control+w and Control+u, whatever else is held.
C23_Chord(k) ==
    /\ k.code \in {Char("w"), Char("u")}
    /\ "CONTROL" \in k.modifiers

\* C23: in Insert mode a character key other than Control+w and Control+u
\* appends exactly that character to the end of the buffer, the previous
\* content staying as a prefix, and is Edited: the cursor is at the end of the
\* buffer.
C23_CharAppends ==
    [][(InInsert /\ key'.code.kind = "Char" /\ ~C23_Chord(key')) =>
         /\ status' = "running"
         /\ action' = Edited
         /\ Len(input') = Len(input) + 1
         /\ Prefix(input', Len(input)) = input
         /\ input'[Len(input')] = key'.code.c
         /\ cursor' = StrLen(input')]_vars

\* Control+q was typed after a two-byte space: both are in the buffer.
C23_Witness ==
    /\ input = <<Nbsp, "q">>
    /\ key = KeyEvent(Char("q"), CONTROL)
    /\ action = Edited
    /\ cursor = 3

-----------------------------------------------------------------------------
(* C24 *)

\* C24: Backspace removes exactly the last character of a non-empty buffer and
\* does nothing to an empty one, and is Edited in both cases; so a character
\* inserted and then removed with Backspace leaves the previous buffer.
C24_BackspacePops ==
    [][(InInsert /\ key'.code = Named("Backspace")) =>
         /\ status' = "running"
         /\ action' = Edited
         /\ input = <<>> => input' = <<>>
         /\ input # <<>> =>
              /\ Len(input') = Len(input) - 1
              /\ input = Append(input', input[Len(input)])
         /\ \A c \in EditChars :
              handle_editing_mode_key(key',
                  handle_editing_mode_key(Unmodified(c), input').cell).cell = input']_vars

\* Backspace has just left a buffer of one character, the cursor after it.
C24_Witness ==
    /\ key = KeyEvent(Named("Backspace"), NONE)
    /\ action = Edited
    /\ input = <<"q">>
    /\ cursor = 1

-----------------------------------------------------------------------------
(* C25 *)

\* The positions of s that hold a non-whitespace character.
C25_Solid(s) == {i \in 1..Len(s) : ~IsWhitespace(s[i])}

\* s without its leading and trailing whitespace.
C25_Trimmed(s) ==
    LET P == C25_Solid(s) IN
    SubSeq(s, CHOOSE i \in P : \A j \in P : i <= j, SetMax(P))

\* C25: on Submit, a buffer with a non-whitespace character appends exactly
\* one issue at the end of the list, its summary the buffer without leading
\* and trailing whitespace, the previous issues keeping content and order, and
\* selects it (index length - 1); an empty or whitespace-only buffer leaves the
\* list unchanged. No step ever shrinks the list.
C25_SubmitAppends ==
    [][/\ (InInsert /\ key'.code = Named("Enter")) =>
            /\ action' = Submit
            /\ IF C25_Solid(input) # {}
                 THEN /\ issues' = Append(issues, C25_Trimmed(input))
                      /\ selected' = Some(Len(issues') - 1)
                 ELSE issues' = issues
       /\ Len(issues') >= Len(issues)
       /\ Prefix(issues', Len(issues)) = issues]_vars

\* The buffer qq has just been submitted after the buffer q.
C25_Witness ==
    /\ action = Submit
    /\ issues = << <<"q">>, <<"q", "q">> >>
    /\ selected = Some(1)
    /\ input = <<>>

-----------------------------------------------------------------------------
(* C26 *)

\* C26: digit accumulation cannot fail: pending * 10 + digit stays within the
\* unsigned counter, with no overflow, wrap-around or abort, and the count
\* accumulated converts to a signed jump delta of the same magnitude.
C26_AccumulationFits ==
    [][(status = "running" /\ AccumulatesDigit(key', pending_count)) =>
         LET v == Accumulated(pending_count, ToDigit(key'.code.c)) IN
         /\ v <= UsizeMax
         /\ status' = "running"
         /\ pending_count' = Some(v)
         /\ \A k \in {Unmodified("j"), Unmodified("k")} :
              LET r == handle_normal_mode_key(k, pending_count', overflow_checks) IN
              /\ ~r.panicked
              /\ r.action.tag = "Jump"
              /\ r.action.n \in {v, 0 - v}]_vars

-----------------------------------------------------------------------------
(* C27 *)

\* C27: delete-previous-word cannot fail for any buffer content, separating
\* whitespace of several bytes included: the position it truncates at is on a
\* character boundary of the buffer, and Control+w always completes and is
\* Edited.
C27_DeleteWordCompletes ==
    [][(InInsert /\ key'.code = Char("w") /\ "CONTROL" \in key'.modifiers) =>
         LET pos == RFindWhitespace(TrimEnd(input)) IN
         /\ pos # None => IsCharBoundary(input, TruncateAt(pos[1]))
         /\ status' = "running"
         /\ action' = Edited]_vars

-----------------------------------------------------------------------------
(* C28 *)

\* C28: the layout cannot overflow u16: for every available width 0..65535,
\* used_width + min_width + 2, the sum of the minimum widths plus the spacing,
\* remaining_width * factor and min + remaining_width * factor / total_flex
\* all stay within 0..65535, and laying out never aborts.
C28_LayoutFitsU16 ==
    LET width == available_width
        loop == AddFields(2, MinWidth(PRIORITY[1]), <<PRIORITY[1]>>, width)
        shown_fields == loop.shown_fields
        total_flex == TotalFlex(shown_fields)
        remaining_width == RemainingWidth(width, shown_fields)
    IN  /\ \A i \in 2..Len(PRIORITY) :
              loop.used_width + MinWidth(PRIORITY[i]) + 2 \in 0..U16Max
        /\ FixedTotal(shown_fields) \in 0..U16Max
        /\ \A i \in 1..Len(shown_fields) :
              LET factor == FlexFactor(shown_fields[i])
                  min == MinWidth(shown_fields[i])
              IN  /\ remaining_width * factor \in 0..U16Max
                  /\ total_flex > 0 =>
                       min + (remaining_width * factor) \div total_flex \in 0..U16Max
        /\ status # "panicked"

-----------------------------------------------------------------------------
(* C29 *)

\* C29: in Normal mode an unmodified s (ToggleSidebar) flips the sidebar, so
\* that two presses restore it, and changes nothing else of the application;
\* the sidebar starts hidden.
C29_SidebarToggles ==
    [][/\ key = NoKey => ~sidebar_visible
       /\ (InNormal /\ key' = Unmodified("s")) =>
            /\ action' = ToggleSidebar
            /\ sidebar_visible' = ~sidebar_visible
            /\ UNCHANGED <<status, input_mode, issues, selected, offset, input,
                           cursor>>]_vars

-----------------------------------------------------------------------------
(* C30 *)

-----------------------------------------------------------------------------
(* C31 *)

\* C31: in every state reachable by key events the selection is none exactly
\* when the issue list is empty: a non-empty list has a selected item from
\* startup, and from the moment the first issue is submitted into an empty
\* list, and no action deselects it.
C31_SelectedIffNonEmpty ==
    /\ (selected = None) <=> (issues = <<>>)
    /\ selected # None => selected[1] \in 0..(Len(issues) - 1)

\* The first issue has just been submitted into an empty list and is selected.
C31_Witness ==
    /\ action = Submit
    /\ Len(issues) = 1
    /\ selected = Some(0)

-----------------------------------------------------------------------------
(* C32 *)

\* The fields of higher priority than a field.
C32_Before(field) ==
    {PRIORITY[j] : j \in {j \in 1..Len(PRIORITY) :
        \E i \in 1..Len(PRIORITY) : PRIORITY[i] = field /\ j < i}}

\* A set of fields that holds, with each field, every field of higher priority.
C32_IsPrefix(S) == \A f \in S : C32_Before(f) \subseteq S

\* The fields shown at a width, as a set.
C32_ShownAt(width) == Elements(ShownFields(width))

\* C32 as stated: columns are added strictly by priority: for every width the
\* set of shown fields is a prefix of the priority order Summary, Status, Id,
\* Priority, and so a wider viewport never hides a field shown at a narrower
\* one.
C32_ShownIsPrefix ==
    /\ C32_IsPrefix(C32_ShownAt(available_width))
    /\ constraints # <<>> => C32_IsPrefix(Elements(EmittedFields))
    /\ available_width < U16Max =>
         C32_ShownAt(available_width) \subseteq C32_ShownAt(available_width + 1)

\* C32 as amended: columns are tried in priority order and added when they
\* fit, a field that does not fit being passed over: Summary, Status and Id
\* are shown as a prefix of the priority order and a wider viewport never
\* hides one of them, while Priority is shown exactly when 1 + 2 fits beside
\* the fields shown before it, also when Status or Id is not shown.
C32_PrefixButLast ==
    LET shown == C32_ShownAt(available_width)
        used == 20 + (IF "Status" \in shown THEN 5 + 2 ELSE 0)
                   + (IF "Id" \in shown THEN 8 + 2 ELSE 0)
    IN  /\ C32_IsPrefix(shown \ {"Priority"})
        /\ "Priority" \in shown <=> used + 1 + 2 <= available_width
        /\ constraints # <<>> => Elements(EmittedFields) = shown
        /\ available_width < U16Max =>
             shown \ {"Priority"} \subseteq C32_ShownAt(available_width + 1)

\* At width 26 the layout emitted has Priority and Summary and no Status; one
\* column wider, Status takes the place of Priority.
C32_Witness ==
    /\ available_width = 26
    /\ EmittedFields = <<"Priority", "Summary">>
    /\ C32_ShownAt(27) = {"Summary", "Status"}

-----------------------------------------------------------------------------
(* C33 *)

\* C33: in every reachable state where the mode is Insert the cursor offset
\* equals the buffer's length, the cursor being at the buffer's end, for any
\* sequence of edits, submits, cancels and re-entries into Insert mode.
C33_CursorAtEnd ==
    input_mode = "Insert" => cursor = StrLen(input)

-----------------------------------------------------------------------------
(* C34 *)

\* C34: for every buffer the result of delete-previous-word is a prefix of the
\* buffer, strictly shorter when the buffer is not empty, so that repeating
\* Control+w reaches the empty buffer after at most as many presses as the
\* buffer is long; on the empty buffer Control+w is a no-op.
C34_DeleteWordShrinks ==
    [][(InInsert /\ key'.code = Char("w") /\ "CONTROL" \in key'.modifiers) =>
         /\ status' = "running"
         /\ Len(input') <= Len(input)
         /\ input' = Prefix(input, Len(input'))
         /\ input # <<>> => Len(input') < Len(input)
         /\ input = <<>> => input' = <<>>]_vars

====
